---------------------------- MODULE Spec2Model ----------------------------
(***************************************************************************)
(* homebridge-scoreboard: the platform's discovery pass (src/platform.ts)  *)
(* and the accessory's get/set event handlers (src/platformAccessory.ts).  *)
(*                                                                         *)
(* Strings are sequences of UTF-16 code units (what charCodeAt returns),   *)
(* so that the regular expression test, toUpperCase, the number-to-string  *)
(* conversion and the concatenations of the source are computed, not       *)
(* assumed.                                                                *)
(***************************************************************************)
EXTENDS Integers, Sequences, FiniteSets, TLC

VARIABLES
    config,       \* this.config.scoreboards: the ordered list of tokens
    accessories,  \* this.accessories: the restored (cached) accessories
    launched,     \* TRUE once the didFinishLaunching callback has run
    ips,          \* history: the values assigned to `ip`, one per iteration begun
    created,      \* history: accessories made by `new this.api.platformAccessory`
    bridges,      \* the SchmidtScoreboardAccessory instances constructed
    registered,   \* history: the registerPlatformAccessories calls issued
    events,       \* the framework get/set events delivered, with their callback's calls
    requests,     \* the axios requests issued, with their state
    device        \* the scoreboard devices' states {screen_on, sport}, by base url

vars == <<config, accessories, launched, ips, created, bridges, registered,
          events, requests, device>>

(***************************************************************************)
(* Bounds of the model.                                                    *)
(***************************************************************************)
MaxTokens == 2
MaxPersisted == 1
MaxEvents == 2

(***************************************************************************)
(* Strings used by the model, as code units.                               *)
(***************************************************************************)
\* "AAAAAAAA"
T_AAAAAAAA == <<65, 65, 65, 65, 65, 65, 65, 65>>
\* "ABCDEFGH"
T_ABCDEFGH == <<65, 66, 67, 68, 69, 70, 71, 72>>
\* "abcdefgh"
T_abcdefgh == <<97, 98, 99, 100, 101, 102, 103, 104>>
\* "aBcDeFgH"
T_aBcDeFgH == <<97, 66, 99, 68, 101, 70, 103, 72>>
\* "JVAAAAAA" (first pair decodes to 255)
T_JVAAAAAA == <<74, 86, 65, 65, 65, 65, 65, 65>>
\* "JWAAAAAA" (first pair decodes to 256)
T_JWAAAAAA == <<74, 87, 65, 65, 65, 65, 65, 65>>
\* "aaaaZZaa" (third pair decodes to 675)
T_aaaaZZaa == <<97, 97, 97, 97, 90, 90, 97, 97>>
\* "AAAAAAA_" (8 characters, the last one between 'Z' and 'a')
T_AAAAAAA_ == <<65, 65, 65, 65, 65, 65, 65, 95>>
\* "[AAAAAAA" (8 characters, the first one between 'Z' and 'a')
T_LBrAAAAAAA == <<91, 65, 65, 65, 65, 65, 65, 65>>
\* "AAAAAAA1" (8 characters, one a digit)
T_AAAAAAA1 == <<65, 65, 65, 65, 65, 65, 65, 49>>
\* "AAAAAAAAA" (9 letters)
T_AAAAAAAAA == <<65, 65, 65, 65, 65, 65, 65, 65, 65>>
\* "0.0.0.0"
T_0_0_0_0 == <<48, 46, 48, 46, 48, 46, 48>>
\* "192.168.1.5"
T_192_168_1_5 == <<49, 57, 50, 46, 49, 54, 56, 46, 49, 46, 53>>
\* "1.55.109.163"
T_1_55_109_163 == <<49, 46, 53, 53, 46, 49, 48, 57, 46, 49, 54, 51>>

TokenPool ==
    { T_AAAAAAAA, T_ABCDEFGH, T_abcdefgh, T_aBcDeFgH, T_JVAAAAAA, T_JWAAAAAA,
      T_aaaaZZaa, T_AAAAAAA_, T_LBrAAAAAAA, T_AAAAAAA1, T_AAAAAAAAA,
      T_0_0_0_0, T_192_168_1_5 }

(***************************************************************************)
(* platform.ts, discoverDevices: the token-to-address conversion.          *)
(***************************************************************************)
\* The character class [a-zA-z] of syncCodeRegExp: a-z together with A-z,
\* the latter a range of code units from 'A' (65) to 'z' (122).
InSyncCodeClass(c) == (c >= 97 /\ c <= 122) \/ (c >= 65 /\ c <= 122)

\* syncCodeRegExp.test(s) for the pattern '[a-zA-z]{8}$': some 8 consecutive
\* characters of the class end the string.
syncCodeRegExpTest(s) ==
    /\ Len(s) >= 8
    /\ \A i \in (Len(s) - 7)..Len(s) : InSyncCodeClass(s[i])

\* String.prototype.toUpperCase on one ASCII code unit.
UpperCode(c) == IF c >= 97 /\ c <= 122 THEN c - 32 ELSE c

\* A variant that leaves the token's case as it is.
toUpperCase_Skipped(s) == s

toUpperCase(s) == [i \in 1..Len(s) |-> UpperCode(s[i])]

\* Number-to-string conversion of the `+` operator: decimal digits.
RECURSIVE Digits(_)
Digits(n) == IF n < 10 THEN <<48 + n>> ELSE Digits(n \div 10) \o <<48 + (n % 10)>>

NumberToString(n) == IF n < 0 THEN <<45>> \o Digits(0 - n) ELSE Digits(n)

\* The value added for the pair at (0-based) positions i, i+1 of syncCode.
PairValue(syncCode, i) ==
    LET mod == syncCode[i + 1] - 65
        rem == syncCode[i + 2] - 65
    IN  mod * 26 + rem

\* The loop `for (i = 0; i < syncCode.length; i += 2)` building `output`.
RECURSIVE DecodeLoop(_, _, _)
DecodeLoop(syncCode, i, output) ==
    IF i < Len(syncCode)
    THEN DecodeLoop(syncCode, i + 2,
                    output \o NumberToString(PairValue(syncCode, i)) \o <<46>>)
    ELSE output

\* output.slice(0, -1)
SliceDropLast(s) == IF Len(s) = 0 THEN s ELSE SubSeq(s, 1, Len(s) - 1)

\* Whether a token takes the sync-code branch.
IsSyncCode(ipOrSyncCode) ==
    Len(ipOrSyncCode) = 8 /\ syncCodeRegExpTest(ipOrSyncCode)

\* The value of `ip` for a token.
Resolve(ipOrSyncCode) ==
    IF IsSyncCode(ipOrSyncCode)
    THEN SliceDropLast(DecodeLoop(toUpperCase(ipOrSyncCode), 0, <<>>))
    ELSE ipOrSyncCode

\* this.api.hap.uuid.generate: a deterministic digest of its argument,
\* taken to be collision free.
generate(data) == <<"uuid", data>>


(***************************************************************************)
(* platformAccessory.ts, the constructor, as far as it touches the state   *)
(* the model keeps.                                                        *)
(***************************************************************************)
\* "http://"
HttpPrefix == <<104, 116, 116, 112, 58, 47, 47>>
\* ":5005/"
PortSuffix == <<58, 53, 48, 48, 53, 47>>

\* A variant that leaves the port out.
BridgeUrl_NoPort(accessory) == HttpPrefix \o accessory.displayName \o <<47>>

\* this.url = 'http://' + this.accessory.displayName + ':5005/'
BridgeUrl(accessory) == HttpPrefix \o accessory.displayName \o PortSuffix

\* The constructor's write to the accessory:
\* this.service.setCharacteristic(ActiveIdentifier, 1).
ConstructedOn(accessory) == [accessory EXCEPT !.ActiveIdentifier = 1]

\* The instance the constructor yields for the accessory object `ref`
\* (<<"restored", k>>: this.accessories[k]; <<"created", k>>: the k-th
\* accessory made by this pass). Its `on` calls attach one set of handlers.
NewBridge(ref, accessory) == [acc |-> ref, url |-> BridgeUrl(accessory)]

(***************************************************************************)
(* platform.ts: the accessory objects.                                     *)
(***************************************************************************)
\* new this.api.platformAccessory(ip, uuid) followed by
\* accessory.context.device = ip; a Television service starts with no
\* ActiveIdentifier set (0).
NewPlatformAccessory(ip, uuid) ==
    [UUID |-> uuid, displayName |-> ip, context |-> <<ip>>, ActiveIdentifier |-> 0]

\* An accessory as the framework restores it from its cache: one this code
\* registered in an earlier process, with the input it was last switched to.
CachedAccessory(ip, activeIdentifier) ==
    [NewPlatformAccessory(ip, generate(ip)) EXCEPT !.ActiveIdentifier = activeIdentifier]

PersistedPool ==
    { CachedAccessory(ip, ai) : ip \in {T_0_0_0_0, T_1_55_109_163}, ai \in {1, 50} }

\* this.accessories.find(accessory => accessory.UUID === uuid): the index of
\* the first match, 0 for undefined.
FindAccessory(accs, uuid) ==
    LET hits == { k \in 1..Len(accs) : accs[k].UUID = uuid }
    IN  IF hits = {} THEN 0 ELSE CHOOSE k \in hits : \A j \in hits : k <= j

(***************************************************************************)
(* platform.ts, discoverDevices.  A collaborator's call may throw: `fault` *)
(* names the call of the iteration that does ("none" when none does).      *)
(***************************************************************************)
FaultKinds == {"none", "generate", "construct", "register"}

NoFaults(n) == [i \in 1..n |-> "none"]

\* The ways a pass over n tokens can go: no call throws, or one call of one
\* iteration does (the pass ends there, so later faults change nothing).
FaultPlans(n) ==
    {NoFaults(n)} \cup
      { [i \in 1..n |-> IF i = at THEN kind ELSE "none"] :
          at \in 1..n, kind \in FaultKinds \ {"none"} }

\* The state a pass works on.
PassState(accs) ==
    [accessories |-> accs, ips |-> <<>>, created |-> <<>>, bridges |-> <<>>,
     registered |-> <<>>, thrown |-> FALSE]

\* One iteration of the `for ... of this.config.scoreboards` loop.
Iteration(st, ipOrSyncCode, fault) ==
    LET ip == Resolve(ipOrSyncCode)
        st1 == [st EXCEPT !.ips = Append(@, ip)]
        uuid == generate(ip)
        k == FindAccessory(st.accessories, uuid)
    IN  IF fault = "generate"
        THEN [st1 EXCEPT !.thrown = TRUE]
        ELSE IF k # 0
        THEN \* existingAccessory
             IF fault = "construct"
             THEN [st1 EXCEPT !.thrown = TRUE]
             ELSE [st1 EXCEPT
                     !.bridges = Append(@, NewBridge(<<"restored", k>>, st.accessories[k])),
                     !.accessories[k] = ConstructedOn(@)]
        ELSE LET accessory == NewPlatformAccessory(ip, uuid)
                 n == Len(st.created) + 1
                 st2 == [st1 EXCEPT !.created = Append(@, accessory)]
             IN  IF fault = "construct"
                 THEN [st2 EXCEPT !.thrown = TRUE]
                 ELSE [st2 EXCEPT
                         !.created[n] = ConstructedOn(@),
                         !.bridges = Append(@, NewBridge(<<"created", n>>, accessory)),
                         !.registered = Append(@, uuid),
                         !.thrown = (fault = "register")]

\* The loop inside `try { ... } catch (error) { }`: an exception thrown by an
\* iteration leaves the loop, and the empty catch block ends the pass.
RECURSIVE DiscoverFrom(_, _, _, _)
DiscoverFrom(st, scoreboards, faults, i) ==
    IF i > Len(scoreboards) \/ st.thrown
    THEN st
    ELSE DiscoverFrom(Iteration(st, scoreboards[i], faults[i]), scoreboards, faults, i + 1)

discoverDevices(accs, scoreboards, faults) ==
    DiscoverFrom(PassState(accs), scoreboards, faults, 1)

\* The devices the bridges address, by base url, each as it is when the
\* bridges are constructed: off, showing input 0.
InitialDevice == [screen_on |-> FALSE, sport |-> 0]

DevicesOf(bs) == [u \in { bs[k].url : k \in 1..Len(bs) } |-> InitialDevice]

(***************************************************************************)
(* The platform's state machine.                                           *)
(***************************************************************************)
SeqsUpTo(S, n) == UNION { [1..m -> S] : m \in 0..n }

Init ==
    /\ config \in SeqsUpTo(TokenPool, MaxTokens)
    /\ accessories = <<>>
    /\ launched = FALSE
    /\ ips = <<>>
    /\ created = <<>>
    /\ bridges = <<>>
    /\ registered = <<>>
    /\ events = <<>>
    /\ requests = <<>>
    /\ device = <<>>

\* configureAccessory(accessory): the framework hands over one cached
\* accessory; its cache holds no two accessories of one UUID.
configureAccessory(accessory) ==
    /\ ~launched
    /\ Len(accessories) < MaxPersisted
    /\ \A k \in 1..Len(accessories) : accessories[k].UUID # accessory.UUID
    /\ accessories' = Append(accessories, accessory)
    /\ UNCHANGED <<config, launched, ips, created, bridges, registered,
                   events, requests, device>>

\* The 'didFinishLaunching' callback: one whole discoverDevices pass.
didFinishLaunching ==
    /\ ~launched
    /\ \E faults \in FaultPlans(Len(config)) :
         LET st == discoverDevices(accessories, config, faults)
         IN  /\ accessories' = st.accessories
             /\ ips' = st.ips
             /\ created' = st.created
             /\ bridges' = st.bridges
             /\ registered' = st.registered
             /\ device' = DevicesOf(st.bridges)
    /\ launched' = TRUE
    /\ UNCHANGED <<config, events, requests>>

Next ==
    \/ \E accessory \in PersistedPool : configureAccessory(accessory)
    \/ didFinishLaunching

Spec == Init /\ [][Next]_vars

(***************************************************************************)
(* platformAccessory.ts: JavaScript values, the device and its answers.    *)
(***************************************************************************)
JSUndefined == <<"undefined">>
JSBoolean(b) == <<"boolean", b>>
JSNumber(n) == <<"number", n>>

\* A JSON object as a function from its property names to their values.
JSObject(f) == <<"object", f>>
\* An empty body, which axios hands over as the string ''.
EmptyBody == <<"string">>
\* The body `null`.
NullBody == <<"null">>

\* The input identifiers set events carry: those the constructor gives
\* Baseball and Clock.
InputIdentifiers == {1, 50}

\* The bodies a device in state `dev` may send with status 200 on GET /:
\* its state, its state short of a field, or nothing usable.
StateBody(dev) ==
    JSObject([f \in {"screen_on", "sport"} |->
                IF f = "screen_on" THEN JSBoolean(dev.screen_on) ELSE JSNumber(dev.sport)])
BodyWithout(dev, field) ==
    JSObject([f \in {"screen_on", "sport"} \ {field} |->
                IF f = "screen_on" THEN JSBoolean(dev.screen_on) ELSE JSNumber(dev.sport)])
GetBodies(dev) ==
    { StateBody(dev), BodyWithout(dev, "screen_on"), BodyWithout(dev, "sport"),
      EmptyBody, NullBody }

\* How a request ends: the connection fails (refused, reset), or an answer
\* with a status and a body arrives.
Statuses == {200, 204, 500}
Refused == [kind |-> "error", status |-> 0, data |-> EmptyBody]
\* The outcome field of a request that has not settled.
NoOutcome == [kind |-> "none", status |-> 0, data |-> EmptyBody]
Answer(status, data) == [kind |-> "answer", status |-> status, data |-> data]

Outcomes(method, dev) ==
    {Refused}
      \cup { Answer(st, EmptyBody) : st \in Statuses \ {200} }
      \cup { Answer(200, d) : d \in (IF method = "GET" THEN GetBodies(dev) ELSE {EmptyBody}) }

\* A device that stores what it is sent: the state after it has answered
\* `outcome` to a request.
DeviceAfter(dev, endpoint, body, outcome) ==
    IF outcome.kind = "answer" /\ outcome.status = 200
    THEN IF endpoint = "setPower" THEN [dev EXCEPT !.screen_on = body]
         ELSE IF endpoint = "setSport" THEN [dev EXCEPT !.sport = body]
         ELSE dev
    ELSE dev

(***************************************************************************)
(* platformAccessory.ts: sendScoreboardRequest and the four handlers.      *)
(***************************************************************************)
Ops == {"getOn", "setOn", "getActiveIdentifier", "setActiveIdentifier"}

ArgsOf(op) ==
    IF op = "setOn" THEN BOOLEAN
    ELSE IF op = "setActiveIdentifier" THEN InputIdentifiers
    ELSE {"none"}

\* The endpoint a handler passes to sendScoreboardRequest.
EndpointOf(op) ==
    IF op = "setOn" THEN "setPower"
    ELSE IF op = "setActiveIdentifier" THEN "setSport"
    ELSE ""

\* body === undefined ? axios.get(...) : axios.post(...)
MethodOf(op) == IF op \in {"setOn", "setActiveIdentifier"} THEN "POST" ELSE "GET"

\* axios settles the promise of a request: it rejects on a connection
\* failure and on a status outside 2xx (its default validateStatus).
AxiosResolves(outcome) ==
    outcome.kind = "answer" /\ outcome.status >= 200 /\ outcome.status < 300

\* A variant without the check of response.status.
sendScoreboardRequest_NoStatusCheck(outcome) ==
    IF AxiosResolves(outcome) THEN <<"resolved", outcome.data>> ELSE <<"rejected">>

\* sendScoreboardRequest once axios has settled: <<"resolved", data>> or
\* <<"rejected">>.
sendScoreboardRequest(outcome) ==
    IF AxiosResolves(outcome)
    THEN IF outcome.status # 200 THEN <<"rejected">> ELSE <<"resolved", outcome.data>>
    ELSE <<"rejected">>

\* response[field]: reading a property of null throws a TypeError, a string
\* or an object without the property gives undefined.
PropertyThrows(data) == data = NullBody
PropertyRead(data, field) ==
    IF data[1] = "object" /\ field \in DOMAIN data[2] THEN data[2][field] ELSE JSUndefined

\* One call of the completion callback: err is "null" for success, else
\* what the handler passed ("Error": an Error object, "string": a string).
\* `threw` tells whether the callback threw when so called.
Call(err, value, threw) == [err |-> err, value |-> value, threw |-> threw]

\* The first argument a handler's catch block passes to the callback.
CatchErr(op) == IF op = "getActiveIdentifier" THEN "string" ELSE "Error"

\* A variant that reads the other field of the response.
FieldRead_Sport(op) == "sport"

\* The field of the response a get handler passes on.
FieldRead(op) == "screen_on"

\* A variant in which the handlers keep the settled request's result in a
\* field of the bridge that the first handler to finish fills, and complete
\* from that field.
HandlerCompletion_SharedResponse(op, outcome, throws) ==
    LET earlier == { r \in 1..Len(requests) : requests[r].state \in {"returned", "escaped"} }
        shared == IF earlier = {} THEN outcome
                  ELSE requests[CHOOSE r \in earlier : \A j \in earlier : r <= j].outcome
        sent == sendScoreboardRequest(shared)
        isGet == MethodOf(op) = "GET"
        reachesSuccess ==
            sent[1] = "resolved" /\ (isGet => ~PropertyThrows(sent[2]))
        value == IF isGet /\ sent[1] = "resolved"
                 THEN PropertyRead(sent[2], FieldRead(op))
                 ELSE JSUndefined
        err == CatchErr(op)
    IN  IF reachesSuccess
        THEN IF throws[1]
             THEN [calls |-> <<Call("null", value, TRUE), Call(err, JSUndefined, throws[2])>>,
                   escaped |-> throws[2]]
             ELSE [calls |-> <<Call("null", value, FALSE)>>, escaped |-> FALSE]
        ELSE [calls |-> <<Call(err, JSUndefined, throws[1])>>, escaped |-> throws[1]]

\* try { await ...; callback(null[, value]) } catch { callback(err) }:
\* the rest of a handler once its request has settled. throws[k] tells
\* whether the k-th call of the callback made here throws. Yields the calls
\* made and whether an exception leaves the handler.
HandlerCompletion(op, outcome, throws) ==
    LET sent == sendScoreboardRequest(outcome)
        isGet == MethodOf(op) = "GET"
        reachesSuccess ==
            sent[1] = "resolved" /\ (isGet => ~PropertyThrows(sent[2]))
        value == IF isGet /\ sent[1] = "resolved"
                 THEN PropertyRead(sent[2], FieldRead(op))
                 ELSE JSUndefined
        err == CatchErr(op)
    IN  IF reachesSuccess
        THEN IF throws[1]
             THEN [calls |-> <<Call("null", value, TRUE), Call(err, JSUndefined, throws[2])>>,
                   escaped |-> throws[2]]
             ELSE [calls |-> <<Call("null", value, FALSE)>>, escaped |-> FALSE]
        ELSE [calls |-> <<Call(err, JSUndefined, throws[1])>>, escaped |-> throws[1]]

\* The request a handler of bridge b issues for the n-th event, up to its
\* `await`: axios is given no timeout.
NewRequest(n, b, op, arg) ==
    [event |-> n, bridge |-> b, method |-> MethodOf(op),
     base |-> bridges[b].url, endpoint |-> EndpointOf(op), body |-> arg,
     state |-> "pending", outcome |-> NoOutcome, calls |-> <<>>]

\* The handlers attached to the accessory object `ref`, in the order the
\* constructors attached them.
RECURSIVE HandlersOf(_, _)
HandlersOf(ref, k) ==
    IF k > Len(bridges) THEN <<>>
    ELSE (IF bridges[k].acc = ref THEN <<k>> ELSE <<>>) \o HandlersOf(ref, k + 1)

AccessoryRefs == { bridges[k].acc : k \in 1..Len(bridges) }

\* The framework delivers a get or set event of a characteristic of the
\* accessory `ref`: every handler attached runs up to its await.
FrameworkEvent(ref, op, arg) ==
    /\ launched
    /\ Len(events) < MaxEvents
    /\ LET n == Len(events) + 1
           hs == HandlersOf(ref, 1)
       IN  /\ events' = Append(events, [acc |-> ref, op |-> op, arg |-> arg])
           /\ requests' = requests \o [j \in 1..Len(hs) |-> NewRequest(n, hs[j], op, arg)]
    /\ UNCHANGED <<config, accessories, launched, ips, created, bridges,
                   registered, device>>

\* A variant that sends the request again when it has failed.
RequestSettles_Retry(r, outcome, throws) ==
    /\ requests[r].state = "pending"
    /\ LET q == requests[r]
           done == HandlerCompletion(events[q.event].op, outcome, throws)
           settled == [requests EXCEPT ![r] =
                 [q EXCEPT !.state = IF done.escaped THEN "escaped" ELSE "returned",
                           !.outcome = outcome,
                           !.calls = done.calls]]
       IN  /\ requests' = IF sendScoreboardRequest(outcome)[1] = "rejected"
                          THEN Append(settled, q)
                          ELSE settled
           /\ device' = [device EXCEPT ![q.base] =
                 DeviceAfter(@, q.endpoint, q.body, outcome)]
    /\ UNCHANGED <<config, accessories, launched, ips, created, bridges,
                   registered, events>>

\* The request r settles and its handler runs to its end.
RequestSettles(r, outcome, throws) ==
    /\ requests[r].state = "pending"
    /\ LET q == requests[r]
           done == HandlerCompletion(events[q.event].op, outcome, throws)
       IN  /\ requests' = [requests EXCEPT ![r] =
                 [q EXCEPT !.state = IF done.escaped THEN "escaped" ELSE "returned",
                           !.outcome = outcome,
                           !.calls = done.calls]]
           /\ device' = [device EXCEPT ![q.base] =
                 DeviceAfter(@, q.endpoint, q.body, outcome)]
    /\ UNCHANGED <<config, accessories, launched, ips, created, bridges,
                   registered, events>>

\* The device never answers the request r (the connection stays open):
\* nothing bounds the wait.
RequestHangs(r) ==
    /\ requests[r].state = "pending"
    /\ requests' = [requests EXCEPT ![r].state = "hung"]
    /\ UNCHANGED <<config, accessories, launched, ips, created, bridges,
                   registered, events, device>>

\* A step that invokes the callback of the n-th event.
Completes(n) ==
    \E r \in 1..Len(requests) :
      /\ requests[r].event = n
      /\ \E outcome \in Outcomes(requests[r].method, device[requests[r].base]),
            throws \in [1..2 -> BOOLEAN] :
           RequestSettles(r, outcome, throws)

(***************************************************************************)
(* The accessory's state machine, from the state a discovery pass leaves.  *)
(***************************************************************************)
\* The passes the accessories come from: <<cached accessories, tokens>>,
\* one making a new accessory, one finding its accessory in the cache.
BridgePasses ==
    { <<<<>>, <<T_abcdefgh>>>>,
      <<<<CachedAccessory(T_0_0_0_0, 50)>>, <<T_AAAAAAAA>>>> }

InitBridge ==
    \E pass \in BridgePasses :
      LET accs == pass[1]
          scoreboards == pass[2]
          st == discoverDevices(accs, scoreboards, NoFaults(Len(scoreboards)))
      IN  /\ config = scoreboards
          /\ accessories = st.accessories
          /\ launched = TRUE
          /\ ips = st.ips
          /\ created = st.created
          /\ bridges = st.bridges
          /\ registered = st.registered
          /\ events = <<>>
          /\ requests = <<>>
          /\ device = DevicesOf(st.bridges)

NextBridge ==
    \/ \E ref \in AccessoryRefs, op \in Ops : \E arg \in ArgsOf(op) :
         FrameworkEvent(ref, op, arg)
    \/ \E r \in 1..Len(requests) :
         \E outcome \in Outcomes(requests[r].method, device[requests[r].base]),
            throws \in [1..2 -> BOOLEAN] :
           RequestSettles(r, outcome, throws)
    \/ \E r \in 1..Len(requests) : RequestHangs(r)

BridgeSpec == InitBridge /\ [][NextBridge]_vars

(***************************************************************************)
(* What the specification calls a sync code, an octet and a dotted quad;   *)
(* these are the specification's words, not the program's.                 *)
(***************************************************************************)
Range(f) == { f[i] : i \in DOMAIN f }

IsLetter(c) == (c >= 65 /\ c <= 90) \/ (c >= 97 /\ c <= 122)

\* Exactly 8 characters, all of them in A-Z or a-z.
EightLetters(t) == Len(t) = 8 /\ \A i \in 1..8 : IsLetter(t[i])

\* The position of a letter in the alphabet, whatever its case.
LetterIndex(c) == IF c >= 97 THEN c - 97 ELSE c - 65

\* Two tokens that differ at most in the case of their letters.
SameLetters(t, u) ==
    Len(t) = Len(u) /\ \A k \in 1..Len(t) : LetterIndex(t[k]) = LetterIndex(u[k])

\* The octet the specification assigns to the g-th pair (g in 1..4).
Octet(t, g) == LetterIndex(t[2 * g - 1]) * 26 + LetterIndex(t[2 * g])

OctetsInRange(t) == \A g \in 1..4 : Octet(t, g) <= 255

\* The dot-separated components of a string.
RECURSIVE SplitDots(_, _, _)
SplitDots(s, i, cur) ==
    IF i > Len(s) THEN <<cur>>
    ELSE IF s[i] = 46 THEN <<cur>> \o SplitDots(s, i + 1, <<>>)
    ELSE SplitDots(s, i + 1, Append(cur, s[i]))

Components(s) == SplitDots(s, 1, <<>>)

IsDecimal(s) == Len(s) >= 1 /\ \A i \in 1..Len(s) : s[i] >= 48 /\ s[i] <= 57

RECURSIVE DecimalValue(_)
DecimalValue(s) ==
    IF Len(s) = 0 THEN 0
    ELSE 10 * DecimalValue(SubSeq(s, 1, Len(s) - 1)) + (s[Len(s)] - 48)

\* Exactly 4 dot-separated decimal components, each in 0..255.
IsDottedQuad(s) ==
    LET cs == Components(s)
    IN  /\ Len(cs) = 4
        /\ \A g \in 1..4 : IsDecimal(cs[g]) /\ DecimalValue(cs[g]) <= 255

\* The accessories made, and the registration calls issued, in the
\* iteration of the i-th token are those of its address.
MadeFor(i) == { k \in 1..Len(created) : created[k].displayName = ips[i] }
RegisteredFor(i) == { k \in 1..Len(registered) : registered[k] = generate(ips[i]) }

(***************************************************************************)
(* C1. A discovery pass issues the registration call at most once per      *)
(* accessory identity, and never for an identity present in the persisted  *)
(* list.                                                                   *)
(***************************************************************************)
C1_RegisteredOncePerIdentity ==
    /\ \A i, j \in 1..Len(registered) : registered[i] = registered[j] => i = j
    /\ \A i \in 1..Len(registered), k \in 1..Len(accessories) :
         accessories[k].UUID # registered[i]

(***************************************************************************)
(* C2. A failure while one token is processed does not keep the pass from  *)
(* processing the tokens after it: once the pass is over, the iteration of *)
(* every valid token (a literal address, or a sync code whose octets are   *)
(* in range) has run and resolved it.                                      *)
(***************************************************************************)
C2_LaterTokensProcessed ==
    launched =>
      \A i \in 1..Len(config) :
        (EightLetters(config[i]) => OctetsInRange(config[i]))
          => (i <= Len(ips) /\ ips[i] = Resolve(config[i]))

(***************************************************************************)
(* C6. An 8-letter sync code with a pair that decodes above 255 gets no    *)
(* address: no accessory is made or registered for it, and every address   *)
(* resolved from an 8-letter sync code is a dotted quad of octets 0..255.  *)
(***************************************************************************)
C6_OutOfRangeCodeRejected ==
    \A i \in 1..Len(ips) :
      EightLetters(config[i]) =>
        /\ (~OctetsInRange(config[i]) => MadeFor(i) = {} /\ RegisteredFor(i) = {})
        /\ IsDottedQuad(ips[i])

(***************************************************************************)
(* C7. A token that is not exactly 8 characters long, or that holds a      *)
(* character outside A-Z and a-z, resolves to itself.                      *)
(***************************************************************************)
C7_NonCodeTokenUnchanged ==
    \A i \in 1..Len(ips) : ~EightLetters(config[i]) => ips[i] = config[i]

(***************************************************************************)
(* C8. A token of exactly 8 letters whose pairs are all in range resolves  *)
(* to 4 dot-separated decimal numbers, the g-th being                      *)
(* (c0 - 'A') * 26 + (c1 - 'A') of the g-th pair of the uppercased token,  *)
(* with no trailing dot and whatever the letters' case: AAAAAAAA gives     *)
(* 0.0.0.0 and ABCDEFGH gives 1.55.109.163.                                *)
(***************************************************************************)
C8_SyncCodeDecoded ==
    \A i \in 1..Len(ips) :
      (EightLetters(config[i]) /\ OctetsInRange(config[i])) =>
        LET cs == Components(ips[i])
        IN  /\ Len(cs) = 4
            /\ \A g \in 1..4 :
                 /\ IsDecimal(cs[g])
                 /\ (Len(cs[g]) > 1 => cs[g][1] # 48)
                 /\ DecimalValue(cs[g]) = Octet(config[i], g)
            /\ (config[i] = T_AAAAAAAA => ips[i] = T_0_0_0_0)
            /\ (SameLetters(config[i], T_ABCDEFGH) => ips[i] = T_1_55_109_163)

\* A lower-case code and a mixed-case code have been resolved in one pass,
\* to the address of the upper-case one.
C8_Witness ==
    /\ launched
    /\ \E i, j \in 1..Len(ips) :
         /\ config[i] = T_abcdefgh /\ config[j] = T_aBcDeFgH
         /\ ips[i] = T_1_55_109_163 /\ ips[j] = T_1_55_109_163

(***************************************************************************)
(* Properties of the accessory's handlers.                                 *)
(***************************************************************************)
Settled(r) == requests[r].state \in {"returned", "escaped"}

\* The calls of the n-th event's callback, by request.
RECURSIVE CallsFrom(_, _)
CallsFrom(n, r) ==
    IF r > Len(requests) THEN <<>>
    ELSE (IF requests[r].event = n THEN requests[r].calls ELSE <<>>) \o CallsFrom(n, r + 1)

CallsOf(n) == CallsFrom(n, 1)

\* The request ended in a network failure or a status other than 200.
RequestFailed(r) ==
    \/ requests[r].outcome.kind = "error"
    \/ requests[r].outcome.kind = "answer" /\ requests[r].outcome.status # 200

\* The field of the device's answer an operation is to report.
RequestedField(op) == IF op = "getActiveIdentifier" THEN "sport" ELSE "screen_on"

IsGet(r) == requests[r].method = "GET"

\* The request was answered 200 with the device's whole state as its body.
AnsweredWithState(r) ==
    /\ Settled(r) /\ ~RequestFailed(r)
    /\ requests[r].outcome.data[1] = "object"
    /\ DOMAIN requests[r].outcome.data[2] = {"screen_on", "sport"}

\* The request was answered 200 with no body, or one without the field the
\* operation is to report.
AnsweredWithoutField(r) ==
    /\ Settled(r) /\ ~RequestFailed(r)
    /\ \/ requests[r].outcome.data[1] # "object"
       \/ RequestedField(events[requests[r].event].op) \notin DOMAIN requests[r].outcome.data[2]

(***************************************************************************)
(* C3. The completion callback of an event is invoked at most once, and    *)
(* never once with success and once with failure, whatever the device      *)
(* answers and whatever the callback does when called.                     *)
(***************************************************************************)
C3_CallbackAtMostOnce ==
    \A n \in 1..Len(events) :
      LET cs == CallsOf(n)
      IN  /\ Len(cs) <= 1
          /\ ~ \E i, j \in 1..Len(cs) : cs[i].err = "null" /\ cs[j].err # "null"

(***************************************************************************)
(* C4. No event is left with its completion uninvoked: while the callback  *)
(* of an event has not been called, a step that calls it is still to come  *)
(* (an answer, or the timeout that cuts a silent device off).              *)
(***************************************************************************)
C4_CompletionStillToCome ==
    \A n \in 1..Len(events) : CallsOf(n) = <<>> => ENABLED Completes(n)

(***************************************************************************)
(* C5. When GET / is answered 200 with {screen_on: b, sport: s}, get       *)
(* active input completes successfully with s and get power with b.        *)
(***************************************************************************)
C5_GetReportsItsOwnField ==
    \A r \in 1..Len(requests) :
      (Settled(r) /\ IsGet(r) /\ AnsweredWithState(r)) =>
        /\ requests[r].calls[1].err = "null"
        /\ requests[r].calls[1].value =
             requests[r].outcome.data[2][RequestedField(events[requests[r].event].op)]

C10_MissingFieldFails ==
    \A r \in 1..Len(requests) :
      (Settled(r) /\ IsGet(r) /\ AnsweredWithoutField(r)) =>
        /\ requests[r].calls[1].err # "null"
        /\ \A k \in 1..Len(requests[r].calls) :
             ~(requests[r].calls[k].err = "null" /\ requests[r].calls[k].value = JSUndefined)

(***************************************************************************)
(* C11. When the persisted list holds an entry with the identity of a      *)
(* token's address, the pass reuses it: it makes no accessory and issues   *)
(* no registration for that token, and it leaves every restored entry      *)
(* (its context and its state) exactly as restored, however often the      *)
(* address is configured.                                                  *)
(***************************************************************************)
PersistedHolds(i) == \E k \in 1..Len(accessories) : accessories[k].UUID = generate(ips[i])

C11_PersistedEntryReused ==
    [][ (~launched /\ launched') =>
          /\ accessories' = accessories
          /\ \A i \in 1..Len(ips') :
               PersistedHolds(i)' => (MadeFor(i)' = {} /\ RegisteredFor(i)' = {}) ]_vars

(***************************************************************************)
(* C13. After a discovery pass every accessory object has at most one      *)
(* SchmidtScoreboardAccessory attached, so an event on one of its          *)
(* characteristics runs one handler, which issues one request and makes    *)
(* one completion, even when several tokens resolve to one address.        *)
(***************************************************************************)
C13_OneBridgePerAccessory ==
    launched => \A ref \in AccessoryRefs : Len(HandlersOf(ref, 1)) = 1

(***************************************************************************)
(* C12. Set-then-get round trip, against a device that stores what it is   *)
(* sent: a set power with v that completes successfully leaves the device  *)
(* with screen_on = v, nothing but such a set changes the device's         *)
(* screen_on, and a get power answered with the device's state completes   *)
(* successfully with the screen_on the device holds when it answers (a     *)
(* fresh round trip, no value kept by the bridge). So a get power that     *)
(* follows the set, with no other set in between, completes with v.        *)
(***************************************************************************)
SetPowerSucceeded(q) == events[q.event].op = "setOn" /\ q.calls[1].err = "null"

C12_SetThenGetRoundTrip ==
    [][ /\ \A r \in 1..Len(requests) :
             (requests[r].state = "pending" /\ Settled(r)') =>
               LET q == requests'[r]
               IN  /\ SetPowerSucceeded(q) => device'[q.base].screen_on = q.body
                   /\ ~SetPowerSucceeded(q) =>
                        device'[q.base].screen_on = device[q.base].screen_on
                   /\ (events[q.event].op = "getOn" /\ AnsweredWithState(r)') =>
                        /\ q.calls[1].err = "null"
                        /\ q.calls[1].value = JSBoolean(device[q.base].screen_on)
        /\ (\A r \in 1..Len(requests) : Settled(r)' = Settled(r)) => device' = device
      ]_vars

\* A set power with true completed successfully, and a get power then
\* completed successfully with true (the device started with false).
C12_Witness ==
    \E r1, r2 \in 1..Len(requests) :
      /\ r1 < r2
      /\ events[requests[r1].event].op = "setOn" /\ requests[r1].body = TRUE
      /\ requests[r1].calls = <<Call("null", JSUndefined, FALSE)>>
      /\ events[requests[r2].event].op = "getOn" /\ AnsweredWithState(r2)
      /\ requests[r2].calls = <<Call("null", JSBoolean(TRUE), FALSE)>>

(***************************************************************************)
(* C14. Every request of the bridge made for the k-th token goes to        *)
(* http://<the token's address>:5005/<endpoint>, for a new accessory and   *)
(* for a restored one, and the bridge's base address is that one in every  *)
(* state.                                                                  *)
(***************************************************************************)
\* "http://1.55.109.163:5005/"
U_1_55_109_163 ==
    <<104, 116, 116, 112, 58, 47, 47, 49, 46, 53, 53, 46, 49, 48, 57, 46, 49, 54, 51,
      58, 53, 48, 48, 53, 47>>
\* "http://0.0.0.0:5005/"
U_0_0_0_0 ==
    <<104, 116, 116, 112, 58, 47, 47, 48, 46, 48, 46, 48, 46, 48, 58, 53, 48, 48, 53, 47>>

\* The endpoint the specification gives an operation.
SpecEndpoint(op) ==
    IF op = "setOn" THEN "setPower"
    ELSE IF op = "setActiveIdentifier" THEN "setSport"
    ELSE ""

C14_RequestsAddressed ==
    /\ \A b \in 1..Len(bridges) :
         /\ bridges[b].url = HttpPrefix \o Resolve(config[b]) \o PortSuffix
         /\ (SameLetters(config[b], T_ABCDEFGH) => bridges[b].url = U_1_55_109_163)
         /\ (config[b] = T_AAAAAAAA => bridges[b].url = U_0_0_0_0)
    /\ \A r \in 1..Len(requests) :
         /\ requests[r].base = bridges[requests[r].bridge].url
         /\ requests[r].endpoint = SpecEndpoint(events[requests[r].event].op)

\* The bridge of a restored accessory has sent a POST to
\* http://0.0.0.0:5005/setPower for the token AAAAAAAA.
C14_Witness ==
    \E r \in 1..Len(requests) :
      /\ bridges[requests[r].bridge].acc[1] = "restored"
      /\ config[requests[r].bridge] = T_AAAAAAAA
      /\ requests[r].method = "POST"
      /\ requests[r].base = U_0_0_0_0 /\ requests[r].endpoint = "setPower"
      /\ Settled(r)

(***************************************************************************)
(* C15. Each run of a handler issues exactly one request: for every event  *)
(* and every handler attached to its accessory there is one request,       *)
(* whether it failed or succeeded; none is sent again.                     *)
(***************************************************************************)
C15_OneRequestPerInvocation ==
    /\ \A n \in 1..Len(events) :
         LET hs == HandlersOf(events[n].acc, 1)
         IN  \A j \in 1..Len(hs) :
               Cardinality({ r \in 1..Len(requests) :
                   requests[r].event = n /\ requests[r].bridge = hs[j] }) = 1
    /\ \A r \in 1..Len(requests) : requests[r].event \in 1..Len(events)

\* One event's request failed and another's succeeded, both reported, and
\* there are two requests in all.
C15_Witness ==
    /\ Len(requests) = 2
    /\ \E r1, r2 \in 1..2 :
         /\ Settled(r1) /\ RequestFailed(r1)
         /\ Settled(r2) /\ ~RequestFailed(r2)

(***************************************************************************)
(* C16. Under every interleaving, the completion of an invocation carries  *)
(* the outcome of its own request only: it reports success exactly when its*)
(* own request was answered 200 with a readable body, a value it reports   *)
(* comes from its own response, and no step changes the bridges, the only  *)
(* state a handler reads.                                                  *)
(***************************************************************************)
OwnOutcomeReported(r) ==
    LET q == requests[r]
        ok == q.outcome.kind = "answer" /\ q.outcome.status = 200
                /\ (q.method = "GET" => q.outcome.data # NullBody)
    IN  /\ (q.calls[1].err = "null") <=> ok
        /\ \A k \in 1..Len(q.calls) :
             \/ q.calls[k].value = JSUndefined
             \/ /\ q.method = "GET" /\ ok
                /\ q.outcome.data[1] = "object"
                /\ \E f \in DOMAIN q.outcome.data[2] : q.calls[k].value = q.outcome.data[2][f]

C16_OwnOutcomeOnly ==
    [][ /\ bridges' = bridges
        /\ \A r \in 1..Len(requests') : Settled(r)' => OwnOutcomeReported(r)' ]_vars

\* Two get power invocations overlap: the later one has completed with the
\* value of its own response while the earlier one is still waiting.
C16_Witness ==
    \E r1, r2 \in 1..Len(requests) :
      /\ r1 < r2
      /\ requests[r1].bridge = requests[r2].bridge
      /\ requests[r1].state = "pending"
      /\ requests[r2].state = "returned" /\ AnsweredWithState(r2)
      /\ requests[r2].calls[1].value = requests[r2].outcome.data[2]["screen_on"]

=============================================================================
